---- MODULE Spec2Model ----
(***************************************************************************)
(* Model of the wizard session controller of the ATMA frontend            *)
(* (src/src/pages/Index.tsx, latest revision) together with the parts of  *)
(* the step components that decide when its handlers can be invoked       *)
(* (StepProgress, TellStory, ChooseTheme, ChooseAudio, PreviewVideo,      *)
(* FinalDelivery, Welcome, VideoLibrary).                                 *)
(*                                                                         *)
(* React state of Index is the state of the model.  Every synchronous     *)
(* segment of a handler (up to an await, or from the resumption of an     *)
(* await to the end) is one action: React applies the state updates of    *)
(* one segment as one batch.  A pending network call is an element of     *)
(* analysisTasks / parseTasks; its resolution or rejection is an action.  *)
(***************************************************************************)
EXTENDS Integers, Sequences, FiniteSets, TLC

VARIABLES
    currentStep,                \* Index: useState<Step>
    completedSteps,             \* Index: useState<Set<CreationStep>>
    videoData,                  \* Index: useState<VideoData>
    isProcessingStory,          \* Index: useState(false)
    isProcessingImageAnalysis,  \* Index: useState(false)
    lastToast,                  \* title of the latest toast() call
    analysisTasks,              \* pending analyzeBatch calls of handleUploadNext
    parseTasks,                 \* pending parseScript calls of handleStoryNext
    pv,                         \* local state of the mounted PreviewVideo
    lastOp,                     \* history: the handler segment that ran last
    run,                        \* history: length of the undisturbed advance run
    scriptSeen,                 \* history: script was current in this session
    sess,                       \* history: what this session's events wrote
    net,                        \* localStorage token, auth state, route, last call
    pw,                         \* PreviewVideo: local state and pending calls
    up,                         \* UploadPhotos: local state and pending uploads
    pf,                         \* PreviewVideo.tsx: local state and pending calls
    cb,                         \* AuthCallback: position, stored token, route
    mp                          \* mapChaptersToImages: its inputs and its result

\* the state of Index
sessionVars == <<currentStep, completedSteps, videoData, isProcessingStory,
                 isProcessingImageAnalysis, lastToast, analysisTasks,
                 parseTasks, pv, lastOp, run, scriptSeen, sess>>

\* the state the controller neither reads nor writes
widgetVars == <<net, pw, up, pf, cb, mp>>

vars == <<sessionVars, widgetVars>>

----------------------------------------------------------------------------
(* Bounds *)

MaxTasks == 2      \* pending analysis and parse calls at a time
MaxPvReqs == 1     \* pending generate-preview calls of one PreviewVideo

----------------------------------------------------------------------------
(* Step tables *)

stepOrder == <<"upload", "story", "script", "theme", "audio", "preview", "final">>

stepFlow == <<"welcome", "upload", "story", "script", "theme", "audio", "preview", "final">>

creationSteps == {stepOrder[i] : i \in 1..Len(stepOrder)}

Steps == creationSteps \cup {"welcome", "library"}

\* Array.prototype.indexOf / findIndex, 0-based, -1 when absent
IndexOf(seq, x) ==
    IF \E i \in 1..Len(seq) : seq[i] = x
    THEN (CHOOSE i \in 1..Len(seq) : seq[i] = x) - 1
    ELSE -1

\* stepOrder.indexOf(x) and stepFlow.indexOf(x) for every step x
orderIndex == [x \in Steps |-> IndexOf(stepOrder, x)]

flowIndex == [x \in Steps |-> IndexOf(stepFlow, x)]

showProgress == currentStep \in creationSteps

----------------------------------------------------------------------------
(* Session data *)

NoAnalysis == [set |-> FALSE, total_images |-> 0]

\* the responses analyzeBatch can resolve with
AnalysisResponses == {[set |-> TRUE, total_images |-> 1]}

\* the object literal of useState<VideoData>(...)
InitialVideoData ==
    [uploadedImages |-> <<>>,
     imageAnalysis  |-> NoAnalysis,
     story          |-> "",
     script         |-> <<>>,
     chapters       |-> <<>>,
     theme          |-> "",
     audio          |-> [music |-> "", voice |-> "null", subtitles |-> TRUE]]

\* the object literal handleCreateNew passes to setVideoData
CreateNewVideoData ==
    [uploadedImages |-> <<>>,
     imageAnalysis  |-> NoAnalysis,
     story          |-> "",
     script         |-> <<>>,
     chapters       |-> <<>>,
     theme          |-> "",
     audio          |-> [music |-> "", voice |-> "null", subtitles |-> TRUE]]

StartOverVideoData_oldVoice ==
    [uploadedImages |-> <<>>,
     imageAnalysis  |-> NoAnalysis,
     story          |-> "",
     script         |-> <<>>,
     chapters       |-> <<>>,
     theme          |-> "",
     audio          |-> [music |-> "", voice |-> "", subtitles |-> TRUE]]

\* the object literal handleStartOver passes to setVideoData
StartOverVideoData ==
    [uploadedImages |-> <<>>,
     imageAnalysis  |-> NoAnalysis,
     story          |-> "",
     script         |-> <<>>,
     chapters       |-> <<>>,
     theme          |-> "",
     audio          |-> [music |-> "", voice |-> "null", subtitles |-> TRUE]]

\* inputs of the handlers
ImageLists == {<<"img1">>, <<"img1", "img2">>}

Stories == {"s1"}

chapterA == [title |-> "A", script |-> <<"a">>]

chapterB == [title |-> "B", script |-> <<"b">>]

ParseResponses == {<<chapterA>>, <<chapterA, chapterB>>}

Themes == {"documentary"}

AudioChoices ==
    {[music |-> "cinematic-default", voice |-> "null", subtitles |-> TRUE],
     [music |-> "cinematic-default", voice |-> "v1", subtitles |-> FALSE]}

\* chapters.map(chapter => chapter.script).join(' '); a text is a sequence
\* of tokens and " " is the separator token
RECURSIVE JoinScripts(_)
JoinScripts(chapters) ==
    IF Len(chapters) = 0 THEN <<>>
    ELSE IF Len(chapters) = 1 THEN chapters[1].script
    ELSE chapters[1].script \o <<" ">> \o JoinScripts(Tail(chapters))

\* script.map(s => s.content).join(' ') of ApproveScript: the text of the
\* component's own sections
ApproveScriptText == <<"e">>

----------------------------------------------------------------------------
(* Helpers of Index *)

markStepCompleted_drop(prev, step) == prev

markStepCompleted_replace(prev, step) == {step}

\* setCompletedSteps(prev => new Set([...prev, step]))
markStepCompleted(prev, step) == prev \cup {step}

\* the gate also waits for the background analysis
canProceedFromStep_waits(completed, step) ==
    LET currentIndex == orderIndex[step]
    IN  /\ ~isProcessingImageAnalysis
        /\ IF currentIndex = 0 THEN TRUE
           ELSE stepOrder[currentIndex] \in completed

canProceedFromStep(completed, step) ==
    LET currentIndex == orderIndex[step]
    IN  IF currentIndex = 0 THEN TRUE
        ELSE stepOrder[currentIndex] \in completed

isClickable_next(step) ==
    LET isCompleted == step \in completedSteps
        isCurrent == step = currentStep
        currentStepIndex == orderIndex[currentStep]
        stepIndex == orderIndex[step]
    IN  isCompleted \/ isCurrent \/ (stepIndex <= currentStepIndex + 1)

\* StepProgress: isClickable of the button of `step`
isClickable(step) ==
    LET isCompleted == step \in completedSteps
        isCurrent == step = currentStep
        currentStepIndex == orderIndex[currentStep]
        stepIndex == orderIndex[step]
    IN  isCompleted \/ isCurrent \/ (stepIndex < currentStepIndex)

----------------------------------------------------------------------------
(* PreviewVideo, as far as the controller depends on it *)

PvUnmounted == [mounted |-> FALSE, isGenerating |-> FALSE, error |-> FALSE,
                vd |-> "null", reqs |-> 0]

\* the generateVideo effect, run on mount and when a dependency changes
PvEffect(old, completed, vd) ==
    IF ~canProceedFromStep(completed, "preview")
    THEN [old EXCEPT !.mounted = TRUE, !.isGenerating = FALSE, !.vd = "demo"]
    ELSE IF Len(vd.chapters) = 0 \/ Len(vd.uploadedImages) = 0
    THEN [old EXCEPT !.mounted = TRUE, !.isGenerating = FALSE, !.error = TRUE]
    ELSE [old EXCEPT !.mounted = TRUE, !.isGenerating = TRUE, !.error = FALSE,
                     !.reqs = @ + 1]

PvFresh == [mounted |-> TRUE, isGenerating |-> TRUE, error |-> FALSE,
            vd |-> "null", reqs |-> 0]

\* local state of PreviewVideo after a batch that leaves Index with step
\* newStep, completed set newCompleted and session data newVD
\* depsChanged: the batch replaced one of the effect's dependencies
PvAfter(newStep, newCompleted, newVD, depsChanged) ==
    IF newStep # "preview" THEN PvUnmounted
    ELSE IF currentStep # "preview" THEN PvEffect(PvFresh, newCompleted, newVD)
    ELSE IF depsChanged THEN PvEffect(pv, newCompleted, newVD)
    ELSE pv

\* whether the effect run by a batch may issue its request
PvRoom(newStep, newCompleted, newVD, depsChanged) ==
    PvAfter(newStep, newCompleted, newVD, depsChanged).reqs <= MaxPvReqs

approveEnabled ==
    /\ pv.mounted /\ ~pv.isGenerating /\ ~pv.error
    /\ pv.vd \in {"completed", "demo"}
    /\ canProceedFromStep(completedSteps, "preview")

----------------------------------------------------------------------------
(* History bookkeeping *)

EmptySess == [aOk |-> FALSE, pOk |-> FALSE, tainted |-> FALSE,
              images |-> <<>>, story |-> "", chapters |-> <<>>,
              analysis |-> NoAnalysis]

\* a session that a stale completion has written into is no longer followed
TaintedSess == [EmptySess EXCEPT !.tainted = TRUE]

SessWrite(new) == IF sess.tainted THEN sess ELSE new

\* Pending calls are counted per kind; a call is stale once the session it
\* was launched in has been reset (handleStartOver, handleCreateNew).
NoTasks == [fresh |-> 0, stale |-> 0]

Pending(tasks) == tasks.fresh + tasks.stale

Launch(tasks) == [tasks EXCEPT !.fresh = @ + 1]

MarkStale(tasks) == [fresh |-> 0, stale |-> tasks.fresh + tasks.stale]

Settle(tasks, stale) ==
    IF stale THEN [tasks EXCEPT !.stale = @ - 1]
    ELSE [tasks EXCEPT !.fresh = @ - 1]

HasTask(tasks, stale) == IF stale THEN tasks.stale > 0 ELSE tasks.fresh > 0

----------------------------------------------------------------------------
(* Initial values of the state outside Index *)

\* a stored access token, an authenticated user, the wizard route
NetInit == [token |-> TRUE, isAuthenticated |-> TRUE, route |-> "app",
            lastCall |-> "none", lastStatus |-> 0, lastError |-> "none",
            calls |-> 0]

\* PreviewVideo not rendered
PwUnmounted == [mounted |-> FALSE]

\* UploadPhotos with no image added
UpInit == [images |-> <<>>, isUploading |-> FALSE, batches |-> <<>>,
           payload |-> <<>>]

\* PreviewVideo.tsx not rendered
PfUnmounted == [mounted |-> FALSE]

\* AuthCallback not rendered
CbIdle == [phase |-> "idle"]

\* mapChaptersToImages not called
MpIdle == [called |-> FALSE]

----------------------------------------------------------------------------
\* the state of Index after construction
InitSession ==
    /\ currentStep = "welcome"
    /\ completedSteps = {}
    /\ videoData = InitialVideoData
    /\ isProcessingStory = FALSE
    /\ isProcessingImageAnalysis = FALSE
    /\ lastToast = "none"
    /\ analysisTasks = NoTasks
    /\ parseTasks = NoTasks
    /\ pv = PvUnmounted
    /\ lastOp = "other"
    /\ run = -1
    /\ scriptSeen = FALSE
    /\ sess = EmptySess

Init ==
    /\ InitSession
    /\ net = NetInit
    /\ pw = PwUnmounted
    /\ up = UpInit
    /\ pf = PfUnmounted
    /\ cb = CbIdle
    /\ mp = MpIdle

----------------------------------------------------------------------------
(* Welcome and VideoLibrary *)

\* the earlier revision: () => setCurrentStep('upload')
handleCreateNew_stepOnly ==
    /\ currentStep \in {"welcome", "library"}
    /\ currentStep' = "upload"
    /\ pv' = PvUnmounted
    /\ lastOp' = "other"
    /\ run' = 0
    /\ scriptSeen' = FALSE
    /\ sess' = EmptySess
    /\ UNCHANGED widgetVars
    /\ UNCHANGED <<completedSteps, videoData, isProcessingStory,
                   isProcessingImageAnalysis, lastToast, analysisTasks,
                   parseTasks>>

handleCreateNew ==
    /\ currentStep \in {"welcome", "library"}
    /\ currentStep' = "upload"
    /\ completedSteps' = {}
    /\ videoData' = CreateNewVideoData
    /\ isProcessingImageAnalysis' = FALSE
    /\ isProcessingStory' = FALSE
    /\ analysisTasks' = MarkStale(analysisTasks)
    /\ parseTasks' = MarkStale(parseTasks)
    /\ pv' = PvUnmounted
    /\ lastOp' = "other"
    /\ run' = 0
    /\ scriptSeen' = FALSE
    /\ sess' = EmptySess
    /\ UNCHANGED widgetVars
    /\ UNCHANGED lastToast

handleViewPast ==
    /\ currentStep = "welcome"
    /\ currentStep' = "library"
    /\ lastOp' = "other"
    /\ run' = -1
    /\ UNCHANGED widgetVars
    /\ UNCHANGED <<completedSteps, videoData, isProcessingStory,
                   isProcessingImageAnalysis, lastToast, analysisTasks,
                   parseTasks, pv, scriptSeen, sess>>

libraryBack ==
    /\ currentStep = "library"
    /\ currentStep' = "welcome"
    /\ lastOp' = "other"
    /\ run' = -1
    /\ UNCHANGED widgetVars
    /\ UNCHANGED <<completedSteps, videoData, isProcessingStory,
                   isProcessingImageAnalysis, lastToast, analysisTasks,
                   parseTasks, pv, scriptSeen, sess>>

----------------------------------------------------------------------------
(* Navigation *)

\* the request the step guard is there to reject: a step strictly ahead of
\* the current one that is not completed
AheadUncompleted(step) ==
    /\ orderIndex[step] > orderIndex[currentStep]
    /\ step \notin completedSteps

\* a click on the progress-bar button of `step`: StepProgress calls
\* onStepClick only when the bar is rendered and the button is clickable.
\* A click on a disabled button leaves no trace; a request made while the
\* bar is not rendered at all is recorded in lastOp.
handleStepClick(step) ==
    LET accepted == showProgress /\ isClickable(step)
        newStep == IF accepted THEN step ELSE currentStep
    IN  /\ PvRoom(newStep, completedSteps, videoData, FALSE)
        /\ currentStep' = newStep
        /\ pv' = PvAfter(newStep, completedSteps, videoData, FALSE)
        /\ lastOp' = IF ~showProgress /\ AheadUncompleted(step)
                     THEN "jumpAhead" ELSE "other"
        /\ run' = IF newStep # currentStep THEN -1 ELSE run
        /\ scriptSeen' = (scriptSeen \/ newStep = "script")
        /\ UNCHANGED widgetVars
        /\ UNCHANGED <<completedSteps, videoData, isProcessingStory,
                       isProcessingImageAnalysis, lastToast, analysisTasks,
                       parseTasks, sess>>

\* the screens that render a Back button wired to handleBack
backEnabled ==
    \/ currentStep \in {"upload", "story", "script", "theme", "audio"}
    \/ currentStep = "preview" /\ ~pv.isGenerating

\* the step flow without welcome: Back on upload stays on upload
handleBack_fromSecond ==
    LET currentIndex == flowIndex[currentStep]
        newStep == IF currentIndex > 1 THEN stepFlow[currentIndex] ELSE currentStep
    IN  /\ backEnabled
        /\ PvRoom(newStep, completedSteps, videoData, FALSE)
        /\ currentStep' = newStep
        /\ pv' = PvAfter(newStep, completedSteps, videoData, FALSE)
        /\ lastOp' = "other"
        /\ run' = -1
        /\ scriptSeen' = (scriptSeen \/ newStep = "script")
        /\ UNCHANGED widgetVars
        /\ UNCHANGED <<completedSteps, videoData, isProcessingStory,
                       isProcessingImageAnalysis, lastToast, analysisTasks,
                       parseTasks, sess>>

handleBack ==
    LET currentIndex == flowIndex[currentStep]
        newStep == IF currentIndex > 0 THEN stepFlow[currentIndex] ELSE currentStep
    IN  /\ backEnabled
        /\ PvRoom(newStep, completedSteps, videoData, FALSE)
        /\ currentStep' = newStep
        /\ pv' = PvAfter(newStep, completedSteps, videoData, FALSE)
        /\ lastOp' = "other"
        /\ run' = -1
        /\ scriptSeen' = (scriptSeen \/ newStep = "script")
        /\ UNCHANGED widgetVars
        /\ UNCHANGED <<completedSteps, videoData, isProcessingStory,
                       isProcessingImageAnalysis, lastToast, analysisTasks,
                       parseTasks, sess>>

----------------------------------------------------------------------------
(* upload -> story, with the background image analysis *)

\* the step waits for the analysis instead of advancing at once
handleUploadNext_blocking(uploadedImages) ==
    /\ currentStep = "upload"
    /\ Pending(analysisTasks) + Pending(parseTasks) < MaxTasks
    /\ videoData' = [videoData EXCEPT !.uploadedImages = uploadedImages]
    /\ isProcessingImageAnalysis' = TRUE
    /\ analysisTasks' = Launch(analysisTasks)
    /\ lastOp' = "other"
    /\ run' = -1
    /\ sess' = SessWrite([sess EXCEPT !.images = uploadedImages])
    /\ UNCHANGED widgetVars
    /\ UNCHANGED <<currentStep, completedSteps, isProcessingStory, lastToast,
                   parseTasks, pv, scriptSeen>>

handleUploadNext(uploadedImages) ==
    /\ currentStep = "upload"
    /\ Pending(analysisTasks) + Pending(parseTasks) < MaxTasks
    /\ videoData' = [videoData EXCEPT !.uploadedImages = uploadedImages]
    /\ completedSteps' = markStepCompleted(completedSteps, "upload")
    /\ currentStep' = "story"
    /\ isProcessingImageAnalysis' = TRUE
    /\ analysisTasks' = Launch(analysisTasks)
    /\ lastOp' = "other"
    /\ run' = IF run = 0 THEN 1 ELSE -1
    /\ sess' = SessWrite([sess EXCEPT !.images = uploadedImages])
    /\ UNCHANGED widgetVars
    /\ UNCHANGED <<isProcessingStory, lastToast, parseTasks, pv, scriptSeen>>

\* the result is merged into the session data captured when the call was
\* launched (setVideoData({...videoData, imageAnalysis})) instead of prev
analysisResolved_snapshot(stale, analysisResponse) ==
    LET newVD == [InitialVideoData EXCEPT
                     !.uploadedImages = videoData.uploadedImages,
                     !.imageAnalysis = analysisResponse]
    IN  /\ HasTask(analysisTasks, stale)
        /\ PvRoom(currentStep, completedSteps, newVD, TRUE)
        /\ videoData' = newVD
        /\ lastToast' = "Image analysis completed!"
        /\ isProcessingImageAnalysis' = FALSE
        /\ analysisTasks' = Settle(analysisTasks, stale)
        /\ pv' = PvAfter(currentStep, completedSteps, newVD, TRUE)
        /\ lastOp' = "other"
        /\ sess' = IF stale
                   THEN TaintedSess
                   ELSE SessWrite([sess EXCEPT !.aOk = TRUE,
                                               !.analysis = analysisResponse])
        /\ UNCHANGED widgetVars
        /\ UNCHANGED <<currentStep, completedSteps, isProcessingStory,
                       parseTasks, run, scriptSeen>>

\* the earlier revision: the advance to story follows the analysis
analysisResolved_advance(stale, analysisResponse) ==
    LET newVD == [videoData EXCEPT !.imageAnalysis = analysisResponse]
        newCompleted == markStepCompleted(completedSteps, "upload")
    IN  /\ HasTask(analysisTasks, stale)
        /\ PvRoom("story", newCompleted, newVD, TRUE)
        /\ videoData' = newVD
        /\ completedSteps' = newCompleted
        /\ currentStep' = "story"
        /\ lastToast' = "Image analysis completed!"
        /\ isProcessingImageAnalysis' = FALSE
        /\ analysisTasks' = Settle(analysisTasks, stale)
        /\ pv' = PvAfter("story", newCompleted, newVD, TRUE)
        /\ lastOp' = "other"
        /\ sess' = IF stale
                   THEN TaintedSess
                   ELSE SessWrite([sess EXCEPT !.aOk = TRUE,
                                               !.analysis = analysisResponse])
        /\ UNCHANGED widgetVars
        /\ UNCHANGED <<isProcessingStory, parseTasks, run, scriptSeen>>

\* analyzeBatch resolved: the rest of the try block, then finally
analysisResolved(stale, analysisResponse) ==
    LET newVD == [videoData EXCEPT !.imageAnalysis = analysisResponse]
    IN  /\ HasTask(analysisTasks, stale)
        /\ PvRoom(currentStep, completedSteps, newVD, TRUE)
        /\ videoData' = newVD
        /\ lastToast' = "Image analysis completed!"
        /\ isProcessingImageAnalysis' = FALSE
        /\ analysisTasks' = Settle(analysisTasks, stale)
        /\ pv' = PvAfter(currentStep, completedSteps, newVD, TRUE)
        /\ lastOp' = "other"
        /\ sess' = IF stale
                   THEN TaintedSess
                   ELSE SessWrite([sess EXCEPT !.aOk = TRUE,
                                               !.analysis = analysisResponse])
        /\ UNCHANGED widgetVars
        /\ UNCHANGED <<currentStep, completedSteps, isProcessingStory,
                       parseTasks, run, scriptSeen>>

\* analyzeBatch rejected: the catch block, then finally
analysisRejected(stale) ==
    /\ HasTask(analysisTasks, stale)
    /\ lastToast' = "Image analysis failed"
    /\ isProcessingImageAnalysis' = FALSE
    /\ analysisTasks' = Settle(analysisTasks, stale)
    /\ lastOp' = "other"
    /\ UNCHANGED widgetVars
    /\ UNCHANGED <<currentStep, completedSteps, videoData,
                   isProcessingStory, parseTasks, pv, run, scriptSeen, sess>>

----------------------------------------------------------------------------
(* story -> script, gated on the script parsing call *)

\* the step advances before the parse has resolved
handleStoryNext_eager(story) ==
    /\ currentStep = "story"
    /\ Pending(analysisTasks) + Pending(parseTasks) < MaxTasks
    /\ isProcessingStory' = TRUE
    /\ videoData' = [videoData EXCEPT !.story = story]
    /\ parseTasks' = Launch(parseTasks)
    /\ completedSteps' = markStepCompleted(completedSteps, "story")
    /\ currentStep' = "script"
    /\ lastOp' = "other"
    /\ run' = -1
    /\ scriptSeen' = TRUE
    /\ sess' = SessWrite([sess EXCEPT !.story = story])
    /\ UNCHANGED widgetVars
    /\ UNCHANGED <<isProcessingImageAnalysis, lastToast, analysisTasks, pv>>

handleStoryNext(story) ==
    /\ currentStep = "story"
    /\ Pending(analysisTasks) + Pending(parseTasks) < MaxTasks
    /\ isProcessingStory' = TRUE
    /\ videoData' = [videoData EXCEPT !.story = story]
    /\ parseTasks' = Launch(parseTasks)
    /\ lastOp' = "other"
    /\ sess' = SessWrite([sess EXCEPT !.story = story])
    /\ UNCHANGED widgetVars
    /\ UNCHANGED <<currentStep, completedSteps, isProcessingImageAnalysis,
                   lastToast, analysisTasks, pv, run, scriptSeen>>

\* the script is the text of the first chapter only, not the joined texts
parseResolved_firstOnly(stale, chapters) ==
    LET newVD == [videoData EXCEPT !.chapters = chapters,
                                   !.script = chapters[1].script]
        newCompleted == markStepCompleted(completedSteps, "story")
    IN  /\ HasTask(parseTasks, stale)
        /\ videoData' = newVD
        /\ completedSteps' = newCompleted
        /\ currentStep' = "script"
        /\ lastToast' = "Story processed successfully!"
        /\ isProcessingStory' = FALSE
        /\ parseTasks' = Settle(parseTasks, stale)
        /\ pv' = PvAfter("script", newCompleted, newVD, TRUE)
        /\ lastOp' = "other"
        /\ run' = IF run = 1 /\ currentStep = "story" /\ ~stale
                  THEN 2 ELSE -1
        /\ scriptSeen' = TRUE
        /\ sess' = IF stale
                   THEN TaintedSess
                   ELSE SessWrite([sess EXCEPT !.pOk = TRUE,
                                               !.chapters = chapters])
        /\ UNCHANGED widgetVars
        /\ UNCHANGED <<isProcessingImageAnalysis, analysisTasks>>

\* parseScript resolved with response.chapters = chapters
parseResolved(stale, chapters) ==
    LET newVD == [videoData EXCEPT !.chapters = chapters,
                                   !.script = JoinScripts(chapters)]
        newCompleted == markStepCompleted(completedSteps, "story")
    IN  /\ HasTask(parseTasks, stale)
        /\ videoData' = newVD
        /\ completedSteps' = newCompleted
        /\ currentStep' = "script"
        /\ lastToast' = "Story processed successfully!"
        /\ isProcessingStory' = FALSE
        /\ parseTasks' = Settle(parseTasks, stale)
        /\ pv' = PvAfter("script", newCompleted, newVD, TRUE)
        /\ lastOp' = "other"
        /\ run' = IF run = 1 /\ currentStep = "story" /\ ~stale
                  THEN 2 ELSE -1
        /\ scriptSeen' = TRUE
        /\ sess' = IF stale
                   THEN TaintedSess
                   ELSE SessWrite([sess EXCEPT !.pOk = TRUE,
                                               !.chapters = chapters])
        /\ UNCHANGED widgetVars
        /\ UNCHANGED <<isProcessingImageAnalysis, analysisTasks>>

\* the catch block advances as the catch block of the analysis once did
parseRejected_advance(stale) ==
    /\ HasTask(parseTasks, stale)
    /\ lastToast' = "Error processing story"
    /\ isProcessingStory' = FALSE
    /\ parseTasks' = Settle(parseTasks, stale)
    /\ completedSteps' = markStepCompleted(completedSteps, "story")
    /\ currentStep' = "script"
    /\ pv' = PvAfter("script", completedSteps, videoData, FALSE)
    /\ lastOp' = "other"
    /\ run' = -1
    /\ scriptSeen' = TRUE
    /\ UNCHANGED widgetVars
    /\ UNCHANGED <<videoData, isProcessingImageAnalysis, analysisTasks, sess>>

\* the catch block drops the submitted text
parseRejected_clear(stale) ==
    /\ HasTask(parseTasks, stale)
    /\ videoData' = [videoData EXCEPT !.story = ""]
    /\ lastToast' = "Error processing story"
    /\ isProcessingStory' = FALSE
    /\ parseTasks' = Settle(parseTasks, stale)
    /\ lastOp' = "other"
    /\ UNCHANGED widgetVars
    /\ UNCHANGED <<currentStep, completedSteps,
                   isProcessingImageAnalysis, analysisTasks, pv, run,
                   scriptSeen, sess>>

\* parseScript rejected: the catch block, then finally
parseRejected(stale) ==
    /\ HasTask(parseTasks, stale)
    /\ lastToast' = "Error processing story"
    /\ isProcessingStory' = FALSE
    /\ parseTasks' = Settle(parseTasks, stale)
    /\ lastOp' = "other"
    /\ UNCHANGED widgetVars
    /\ UNCHANGED <<currentStep, completedSteps, videoData,
                   isProcessingImageAnalysis, analysisTasks, pv, run,
                   scriptSeen, sess>>

----------------------------------------------------------------------------
(* The synchronous advances *)

handleScriptNext(script) ==
    /\ currentStep = "script"
    /\ videoData' = [videoData EXCEPT !.script = script]
    /\ completedSteps' = markStepCompleted(completedSteps, "script")
    /\ currentStep' = "theme"
    /\ lastOp' = "other"
    /\ run' = IF run = 2 THEN 3 ELSE -1
    /\ UNCHANGED widgetVars
    /\ UNCHANGED <<isProcessingStory, isProcessingImageAnalysis, lastToast,
                   analysisTasks, parseTasks, pv, scriptSeen, sess>>

handleThemeNext(theme) ==
    /\ currentStep = "theme"
    /\ canProceedFromStep(completedSteps, "theme")
    /\ videoData' = [videoData EXCEPT !.theme = theme]
    /\ completedSteps' = markStepCompleted(completedSteps, "theme")
    /\ currentStep' = "audio"
    /\ lastOp' = "other"
    /\ run' = IF run = 3 THEN 4 ELSE -1
    /\ UNCHANGED widgetVars
    /\ UNCHANGED <<isProcessingStory, isProcessingImageAnalysis, lastToast,
                   analysisTasks, parseTasks, pv, scriptSeen, sess>>

handleAudioNext(audio) ==
    LET newVD == [videoData EXCEPT !.audio = audio]
        newCompleted == markStepCompleted(completedSteps, "audio")
    IN  /\ currentStep = "audio"
        /\ canProceedFromStep(completedSteps, "audio")
        /\ videoData' = newVD
        /\ completedSteps' = newCompleted
        /\ currentStep' = "preview"
        /\ pv' = PvAfter("preview", newCompleted, newVD, TRUE)
        /\ lastOp' = "other"
        /\ run' = IF run = 4 THEN 5 ELSE -1
        /\ UNCHANGED widgetVars
        /\ UNCHANGED <<isProcessingStory, isProcessingImageAnalysis, lastToast,
                       analysisTasks, parseTasks, scriptSeen, sess>>

handlePreviewApprove ==
    /\ currentStep = "preview"
    /\ approveEnabled
    /\ completedSteps' = markStepCompleted(completedSteps, "preview")
    /\ currentStep' = "final"
    /\ pv' = PvUnmounted
    /\ lastOp' = "other"
    /\ run' = IF run = 5 THEN 6 ELSE -1
    /\ UNCHANGED widgetVars
    /\ UNCHANGED <<videoData, isProcessingStory, isProcessingImageAnalysis,
                   lastToast, analysisTasks, parseTasks, scriptSeen, sess>>

handleStartOver ==
    /\ currentStep = "final"
    /\ currentStep' = "welcome"
    /\ completedSteps' = {}
    /\ videoData' = StartOverVideoData
    /\ isProcessingImageAnalysis' = FALSE
    /\ isProcessingStory' = FALSE
    /\ analysisTasks' = MarkStale(analysisTasks)
    /\ parseTasks' = MarkStale(parseTasks)
    /\ pv' = PvUnmounted
    /\ lastOp' = "startOver"
    /\ run' = -1
    /\ scriptSeen' = FALSE
    /\ sess' = EmptySess
    /\ UNCHANGED widgetVars
    /\ UNCHANGED lastToast

----------------------------------------------------------------------------
(* PreviewVideo: the generate-preview request *)

\* generatePreview resolved; vdStatus is "completed" or another status
pvGenResolved(vdStatus) ==
    /\ pv.mounted /\ pv.reqs > 0
    /\ pv' = [pv EXCEPT !.vd = vdStatus, !.isGenerating = FALSE, !.reqs = @ - 1]
    /\ lastOp' = "other"
    /\ UNCHANGED widgetVars
    /\ UNCHANGED <<currentStep, completedSteps, videoData, isProcessingStory,
                   isProcessingImageAnalysis, lastToast, analysisTasks,
                   parseTasks, run, scriptSeen, sess>>

pvGenRejected ==
    /\ pv.mounted /\ pv.reqs > 0
    /\ pv' = [pv EXCEPT !.error = TRUE, !.isGenerating = FALSE, !.reqs = @ - 1]
    /\ lastOp' = "other"
    /\ UNCHANGED widgetVars
    /\ UNCHANGED <<currentStep, completedSteps, videoData, isProcessingStory,
                   isProcessingImageAnalysis, lastToast, analysisTasks,
                   parseTasks, run, scriptSeen, sess>>

retryGeneration ==
    /\ pv.mounted /\ ~pv.isGenerating /\ pv.error
    /\ pv.reqs < MaxPvReqs
    /\ pv' = [pv EXCEPT !.error = FALSE, !.isGenerating = TRUE, !.reqs = @ + 1]
    /\ lastOp' = "other"
    /\ UNCHANGED widgetVars
    /\ UNCHANGED <<currentStep, completedSteps, videoData, isProcessingStory,
                   isProcessingImageAnalysis, lastToast, analysisTasks,
                   parseTasks, run, scriptSeen, sess>>

----------------------------------------------------------------------------
Next ==
    \/ handleCreateNew
    \/ handleViewPast
    \/ libraryBack
    \/ \E step \in creationSteps : handleStepClick(step)
    \/ handleBack
    \/ \E uploadedImages \in ImageLists : handleUploadNext(uploadedImages)
    \/ \E stale \in BOOLEAN, analysisResponse \in AnalysisResponses :
          analysisResolved(stale, analysisResponse)
    \/ \E stale \in BOOLEAN : analysisRejected(stale)
    \/ \E story \in Stories : handleStoryNext(story)
    \/ \E stale \in BOOLEAN, chapters \in ParseResponses :
          parseResolved(stale, chapters)
    \/ \E stale \in BOOLEAN : parseRejected(stale)
    \/ \E script \in {ApproveScriptText} :
          handleScriptNext(script)
    \/ \E theme \in Themes : handleThemeNext(theme)
    \/ \E audio \in AudioChoices : handleAudioNext(audio)
    \/ handlePreviewApprove
    \/ handleStartOver
    \/ \E vdStatus \in {"completed", "other"} : pvGenResolved(vdStatus)
    \/ pvGenRejected
    \/ retryGeneration

Spec == Init /\ [][Next]_vars

----------------------------------------------------------------------------
(* Properties of the wizard session controller *)

anyStepClick == \E step \in creationSteps : handleStepClick(step)

anyUploadNext == \E uploadedImages \in ImageLists : handleUploadNext(uploadedImages)

anyStoryNext == \E story \in Stories : handleStoryNext(story)

anyParseResolved ==
    \E stale \in BOOLEAN, chapters \in ParseResponses : parseResolved(stale, chapters)

\* C1: a jumpTo request for a step strictly ahead of the current step and
\* not in the completed set is rejected: currentStep, completedSteps and
\* the session data stay as they were, at welcome after startOver as well.
C1_JumpAheadRejected ==
    [][\A step \in creationSteps :
          (AheadUncompleted(step) /\ handleStepClick(step))
              => /\ currentStep' = currentStep
                 /\ completedSteps' = completedSteps
                 /\ videoData' = videoData]_vars

\* a rejected request made at welcome right after startOver
C1_Witness ==
    /\ lastOp = "jumpAhead"
    /\ currentStep = "welcome"
    /\ lastToast = "Story processed successfully!"
    /\ completedSteps = {}

\* C2: after N valid advances taken in the fixed order from upload the
\* current step is the N-th successor of upload in the ordering and every
\* step advanced from is completed.
C2_AdvanceOrder ==
    run >= 0 =>
        /\ currentStep = stepOrder[run + 1]
        /\ \A i \in 1..run : stepOrder[i] \in completedSteps

\* six advances in a row have led from upload to final
C2_Witness == run = 6 /\ currentStep = "final"

\* C3: startOver leaves currentStep = welcome, completedSteps empty and the
\* session data equal to the initial empty value.
C3_StartOverResets ==
    [][handleStartOver =>
          /\ currentStep' = "welcome"
          /\ completedSteps' = {}
          /\ videoData' = InitialVideoData]_vars

\* startOver has just run on a session that had been filled
C3_Witness ==
    /\ lastOp = "startOver"
    /\ currentStep = "welcome"
    /\ completedSteps = {}
    /\ videoData = InitialVideoData

\* C4: when the parse call fails, the handling of the failure leaves
\* currentStep and completedSteps as they were (on story, with story not
\* completed, when the user waited there) and raises the error toast.
C4_ParseFailureStays ==
    [][(\E stale \in BOOLEAN : parseRejected(stale))
          => /\ currentStep' = currentStep
             /\ completedSteps' = completedSteps
             /\ lastToast' = "Error processing story"]_vars

\* the failure has been handled and the user is still on story
C4_Witness ==
    /\ lastToast = "Error processing story"
    /\ currentStep = "story"
    /\ "story" \notin completedSteps
    /\ Pending(parseTasks) = 0

\* C5: story-next itself does not move the step, and script becomes
\* current for the first time in a session only by a resolved parse.
C5_ScriptNeedsParse ==
    [][/\ anyStoryNext => currentStep' = currentStep
       /\ (currentStep' = "script" /\ currentStep # "script" /\ ~scriptSeen)
              => anyParseResolved]_vars

\* a parse is pending on story and script has not been entered yet
C5_Witness ==
    /\ currentStep = "story"
    /\ parseTasks.fresh > 0
    /\ ~scriptSeen
    /\ isProcessingStory

\* C6: upload-next moves to story and completes upload at once, and a
\* failed analysis changes neither the step nor the session data (the
\* analysis field stays unset) and raises the failure toast.
C6_AnalysisFailureNonBlocking ==
    /\ [][/\ anyUploadNext
             => (currentStep' = "story" /\ "upload" \in completedSteps')
          /\ (\E stale \in BOOLEAN : analysisRejected(stale))
             => /\ videoData' = videoData
                /\ currentStep' = currentStep
                /\ completedSteps' = completedSteps
                /\ lastToast' = "Image analysis failed"]_vars
    /\ [](~sess.tainted /\ ~sess.aOk => videoData.imageAnalysis = NoAnalysis)

\* the analysis of the session failed and the user is on story
C6_Witness ==
    /\ lastToast = "Image analysis failed"
    /\ currentStep = "story"
    /\ "upload" \in completedSteps
    /\ videoData.imageAnalysis = NoAnalysis
    /\ Pending(analysisTasks) = 0
    /\ ~sess.tainted

\* C7: a result launched in a session that has since been reset is
\* discarded: it changes neither the session data nor completedSteps nor
\* currentStep.
C7_StaleDiscarded ==
    [][(\/ \E r \in AnalysisResponses : analysisResolved(TRUE, r)
        \/ \E chapters \in ParseResponses : parseResolved(TRUE, chapters))
          => /\ videoData' = videoData
             /\ completedSteps' = completedSteps
             /\ currentStep' = currentStep]_vars

\* C8: within one session no write is lost: once both the analysis and the
\* parse of the session have succeeded the session data holds the analysis
\* result, the parsed chapters, the uploaded images and the story together.
C8_NoLostWrite ==
    (sess.aOk /\ sess.pOk /\ ~sess.tainted) =>
        /\ videoData.imageAnalysis = sess.analysis
        /\ videoData.chapters = sess.chapters
        /\ videoData.uploadedImages = sess.images
        /\ videoData.story = sess.story

\* both succeeded, the analysis after the parse
C8_Witness ==
    /\ sess.aOk /\ sess.pOk /\ ~sess.tainted
    /\ lastToast = "Image analysis completed!"
    /\ currentStep = "script"
    /\ videoData.chapters # <<>>
    /\ videoData.imageAnalysis # NoAnalysis

\* C9: completedSteps never loses a step except by startOver or create new.
C9_CompletedMonotone ==
    [][~(handleStartOver \/ handleCreateNew)
          => completedSteps \subseteq completedSteps']_vars

\* the user went back to upload and the later steps are still completed
C9_Witness ==
    /\ currentStep = "upload"
    /\ {"upload", "story", "script", "theme"} \subseteq completedSteps

\* C10: goBack and a progress-bar click make current only a step that is
\* in the completed set.
C10_RevisitOnlyCompleted ==
    [][((handleBack \/ anyStepClick)
          /\ currentStep' # currentStep /\ currentStep' \in creationSteps)
          => currentStep' \in completedSteps]_vars

\* the same, for sessions no stale completion has written into
C10_RevisitUntainted ==
    [][((handleBack \/ anyStepClick) /\ ~sess.tainted
          /\ currentStep' # currentStep /\ currentStep' \in creationSteps)
          => currentStep' \in completedSteps]_vars

----------------------------------------------------------------------------
(* The same controller, for the properties of navigation, of the session   *)
(* data and of the frame of each handler                                   *)

SpecSession == Init /\ [][Next]_vars

\* C11: once currentStep = final, currentStep changes only by startOver,
\* which leads to welcome: no goBack, no progress-bar click and no
\* background completion leaves final.
C11_FinalTerminal ==
    [][(currentStep = "final" /\ currentStep' # "final")
          => (handleStartOver /\ currentStep' = "welcome")]_vars

\* the later advances, each with the input its screen can submit
anyScriptNext == \E script \in {ApproveScriptText} : handleScriptNext(script)

anyThemeNext == \E theme \in Themes : handleThemeNext(theme)

anyAudioNext == \E audio \in AudioChoices : handleAudioNext(audio)

\* C12: upload-next moves to story and completes upload while its analysis
\* call is still pending, and as long as the analysis field is unset
\* (analysis running or failed) every later advance can be taken as soon as
\* its own step is ready: the parse resolution on story, script-next,
\* theme-next and audio-next once the step before is completed, and the
\* approval once the preview is there.
C12_NotGatedOnAnalysis ==
    /\ [][anyUploadNext
             => /\ currentStep' = "story"
                /\ "upload" \in completedSteps'
                /\ analysisTasks'.fresh = analysisTasks.fresh + 1
                /\ videoData'.imageAnalysis = videoData.imageAnalysis]_vars
    /\ [](videoData.imageAnalysis = NoAnalysis =>
            /\ (currentStep = "story" /\ parseTasks.fresh > 0)
                  => ENABLED anyParseResolved
            /\ currentStep = "script" => ENABLED anyScriptNext
            /\ (currentStep = "theme" /\ "script" \in completedSteps)
                  => ENABLED anyThemeNext
            /\ (currentStep = "audio" /\ "theme" \in completedSteps
                  /\ {"upload", "story"} \subseteq completedSteps)
                  => ENABLED anyAudioNext
            /\ (currentStep = "preview" /\ "audio" \in completedSteps
                  /\ ~pv.isGenerating /\ ~pv.error /\ pv.vd = "completed")
                  => ENABLED handlePreviewApprove)

\* final has been reached while the analysis of the session is still running
C12_Witness ==
    /\ currentStep = "final"
    /\ videoData.imageAnalysis = NoAnalysis
    /\ analysisTasks.fresh > 0
    /\ isProcessingImageAnalysis
    /\ run = 6

\* C13: when the analysis of the current session resolves, its result
\* becomes the imageAnalysis field and the step, the completed set and every
\* other field of the session data stay as they were.
C13_AnalysisAttachOnly ==
    [][\A r \in AnalysisResponses :
          analysisResolved(FALSE, r)
              => /\ videoData' = [videoData EXCEPT !.imageAnalysis = r]
                 /\ currentStep' = currentStep
                 /\ completedSteps' = completedSteps]_vars

\* the analysis resolved after the user had advanced to theme
C13_Witness ==
    /\ currentStep = "theme"
    /\ lastToast = "Image analysis completed!"
    /\ sess.aOk /\ ~sess.tainted
    /\ videoData.imageAnalysis = sess.analysis
    /\ videoData.imageAnalysis # NoAnalysis
    /\ videoData.story = "s1"
    /\ videoData.chapters # <<>>

\* C14: a failed parse call writes nothing into the session data, so the
\* story submitted stays and, in a session whose parse has not succeeded,
\* chapters and script are unset.
C14_FailedParseKeepsStory ==
    /\ [][(\E stale \in BOOLEAN : parseRejected(stale))
             => videoData' = videoData]_vars
    /\ []((~sess.tainted /\ ~sess.pOk) =>
            /\ videoData.story = sess.story
            /\ videoData.chapters = <<>>
            /\ videoData.script = <<>>)

\* the parse of the submitted story failed
C14_Witness ==
    /\ lastToast = "Error processing story"
    /\ ~sess.tainted /\ ~sess.pOk
    /\ sess.story = "s1"
    /\ videoData.story = "s1"
    /\ videoData.chapters = <<>>
    /\ Pending(parseTasks) = 0

\* C15: when upload has been advanced from and the parse of the session
\* resolves with k chapters, chapters are those k chapters in order, script
\* is their texts joined in order with a blank between them, the step is
\* script, and upload and story are both completed.
C15_ParseSuccess ==
    [][\A chapters \in ParseResponses :
          ("upload" \in completedSteps /\ parseResolved(FALSE, chapters))
              => /\ videoData'.chapters = chapters
                 /\ Len(videoData'.chapters) = Len(chapters)
                 /\ chapters = <<chapterA>> => videoData'.script = <<"a">>
                 /\ chapters = <<chapterA, chapterB>>
                       => videoData'.script = <<"a", " ", "b">>
                 /\ currentStep' = "script"
                 /\ {"upload", "story"} \subseteq completedSteps']_vars

\* two chapters came back for the story of a session with two images
C15_Witness ==
    /\ lastToast = "Story processed successfully!"
    /\ currentStep = "script"
    /\ run = 2
    /\ Len(videoData.chapters) = 2
    /\ Len(videoData.uploadedImages) = 2
    /\ videoData.script = <<"a", " ", "b">>
    /\ {"upload", "story"} \subseteq completedSteps

\* C16: create new, at welcome or in the library, leaves currentStep =
\* upload, completedSteps empty and the session data equal to the initial
\* empty value.
C16_CreateNewEmpty ==
    [][handleCreateNew
          => /\ currentStep' = "upload"
             /\ completedSteps' = {}
             /\ videoData' = InitialVideoData]_vars

\* create new has just run after an attempt whose story had been parsed
C16_Witness ==
    /\ run = 0
    /\ currentStep = "upload"
    /\ completedSteps = {}
    /\ videoData = InitialVideoData
    /\ lastToast = "Story processed successfully!"

\* C17 as stated: goBack leads to the predecessor in upload, ..., final and
\* leaves the step alone at upload, the first step of that ordering.
C17_BackNoopAtFirst ==
    [][handleBack
          => currentStep' = IF currentStep = stepOrder[1] THEN currentStep
                            ELSE stepOrder[orderIndex[currentStep]]]_vars

\* the step before each step that renders a Back button
backPredecessor ==
    [upload  |-> "welcome",
     story   |-> "upload",
     script  |-> "story",
     theme   |-> "script",
     audio   |-> "theme",
     preview |-> "audio"]

\* C17, amended: goBack leads to the immediate predecessor in welcome,
\* upload, story, script, theme, audio, preview, so from upload to welcome;
\* it is never a no-op where a Back button is rendered.
C17_BackPredecessor ==
    [][handleBack
          => /\ currentStep \in DOMAIN backPredecessor
             /\ currentStep' = backPredecessor[currentStep]
             /\ currentStep' # currentStep]_vars

\* Back on upload has led to welcome with the session still filled
C17_Witness ==
    /\ currentStep = "welcome"
    /\ "upload" \in completedSteps
    /\ run = -1
    /\ videoData.uploadedImages # <<>>

----------------------------------------------------------------------------
(* The HTTP client wrappers and the authentication state                    *)
(* (lib/api.ts, lib/imageApi.ts, lib/imageAnalysisApi.ts, lib/videoApi.ts, *)
(* lib/auth.ts, AuthProvider, UploadPhotos.checkAuth, LoginPage)           *)

MaxCalls == 3      \* network calls followed in one behaviour

\* the wrappers that answer a 401 with `throw new Error('Authentication
\* required. Please log in.')`
ApiCalls ==
    {"parseScript", "analyzeBatch", "uploadImage", "listImages", "getImage",
     "deleteImage", "generatePreview", "getGenerationStatus",
     "listUserVideos", "getVideoMetadata", "downloadVideo", "deleteVideo"}

\* response.status: ok, unauthorized, any other failure
Statuses == {200, 401, 500}

\* the message of the Error a wrapper throws for a response status
thrownError(status) ==
    IF status = 200 THEN "none"
    ELSE IF status = 401 THEN "Authentication required. Please log in."
    ELSE "HTTP error"

\* one call of a wrapper, from the response on: the result is returned or
\* an Error is thrown to the caller; localStorage and the route are not
\* touched
apiCall(call, status) ==
    /\ net.calls < MaxCalls
    /\ net' = [net EXCEPT !.lastCall = call,
                          !.lastStatus = status,
                          !.lastError = thrownError(status),
                          !.calls = @ + 1]
    /\ UNCHANGED <<sessionVars, pw, up, pf, cb, mp>>

\* AuthProvider.refreshUser with authService.getCurrentUser: a 401 removes
\* the token and yields null, any other failure is caught and yields null
refreshUser(status) ==
    /\ net.calls < MaxCalls
    /\ net' = [net EXCEPT !.lastCall = "getCurrentUser",
                          !.lastStatus = status,
                          !.lastError = "none",
                          !.token = IF status = 401 THEN FALSE ELSE @,
                          !.isAuthenticated = (status = 200),
                          !.calls = @ + 1]
    /\ UNCHANGED <<sessionVars, pw, up, pf, cb, mp>>

\* AuthProvider.logout with authService.logout: either way the token is
\* removed and the page is replaced by '/'
logout(status) ==
    /\ net.calls < MaxCalls
    /\ net' = [net EXCEPT !.lastCall = "logout",
                          !.lastStatus = status,
                          !.lastError = "none",
                          !.token = FALSE,
                          !.isAuthenticated = FALSE,
                          !.route = "app",
                          !.calls = @ + 1]
    /\ UNCHANGED <<sessionVars, pw, up, pf, cb, mp>>

\* UploadPhotos.checkAuth: without a user, navigate('/login')
checkAuth ==
    /\ net.route = "app"
    /\ net' = [net EXCEPT !.lastCall = "checkAuth",
                          !.lastStatus = 0,
                          !.lastError = "none",
                          !.route = IF ~net.isAuthenticated THEN "login" ELSE @]
    /\ UNCHANGED <<sessionVars, pw, up, pf, cb, mp>>

\* LoginPage: Back to Home
loginBackHome ==
    /\ net.route = "login"
    /\ net' = [net EXCEPT !.lastCall = "backHome",
                          !.lastStatus = 0,
                          !.lastError = "none",
                          !.route = "app"]
    /\ UNCHANGED <<sessionVars, pw, up, pf, cb, mp>>

NextAuth ==
    \/ \E call \in ApiCalls, status \in Statuses : apiCall(call, status)
    \/ \E status \in Statuses : refreshUser(status)
    \/ \E status \in {200, 500} : logout(status)
    \/ checkAuth
    \/ loginBackHome

SpecAuth == Init /\ [][NextAuth]_vars

\* C18: a 401 answer to any collaborator call, the auth check included,
\* removes the stored access token and leads to the login route.
C18_Unauthorized ==
    [][/\ \A call \in ApiCalls :
             apiCall(call, 401) => (~net'.token /\ net'.route = "login")
       /\ refreshUser(401) => (~net'.token /\ net'.route = "login")]_vars

\* what the auth check alone does on a 401: the token is removed and the
\* user counts as not authenticated, on the route where the check ran
C18_AuthCheckClearsToken ==
    [][refreshUser(401)
          => /\ ~net'.token
             /\ ~net'.isAuthenticated
             /\ net'.route = net.route]_vars

----------------------------------------------------------------------------
(* PreviewVideo (src/unnamed/part_011): the generateVideo effect, the audio *)
(* narration call with its failure dialog, the generate-preview call, the   *)
(* retry from the error screen and the status polling it starts.            *)
(* A pending call or timer is counted in pw; its completion is an action.   *)
(* Completions that arrive after the component was unmounted are dropped.   *)

MaxEffectRuns == 2   \* runs of the generateVideo effect of one mount
MaxRetries == 1      \* clicks on Retry Audio Generation / Try Again per mount
MaxAttempts == 2     \* stands for maxAttempts = 60 of pollGenerationStatus

\* which code awaits a generateAudio call: the effect (with the value of
\* shouldStopGeneration its closure holds), handleRetryAudio, retryGeneration
AudioOrigins == {"effect", "effectStop", "retryAudio", "retryGeneration"}

\* which code awaits a generatePreview call, and whether the request
\* carries audio_narration_file
VideoKinds == {"continue", "retry"} \X BOOLEAN

\* the props the effect looks at first: all fine, canProceed false, no
\* access token, no chapters or no images
PreviewProps == {"ok", "notAllowed", "noToken", "empty"}

\* VideoPreviewResponse.status
VideoStatuses == {"generating", "completed", "failed", "success"}

\* the useState initial values of PreviewVideo
PwMounted(voice, props) ==
    [mounted |-> TRUE, voice |-> voice, props |-> props,
     isGenerating |-> TRUE, vd |-> "null", error |-> FALSE,
     isGeneratingAudio |-> FALSE, audioData |-> FALSE, audioError |-> FALSE,
     showAudioFailureDialog |-> FALSE, shouldStopGeneration |-> FALSE,
     audioCalls |-> [o \in AudioOrigins |-> 0],
     videoCalls |-> [k \in VideoKinds |-> 0],
     timers |-> 0, polls |-> <<>>,
     effectRuns |-> 0, retries |-> 0, lastRequest |-> "none"]

\* generateAudioNarration up to its await (audio.voice is set)
startAudio(w, origin) ==
    [w EXCEPT !.isGeneratingAudio = TRUE,
              !.audioError = FALSE,
              !.audioCalls[origin] = @ + 1]

\* a generatePreview request leaves, with or without narration
startVideo(w, kind, narrated) ==
    [w EXCEPT !.videoCalls[<<kind, narrated>>] = @ + 1,
              !.lastRequest = IF narrated THEN "narrated" ELSE "plain"]

\* continueVideoGeneration up to its await: currentAudioData is
\* audioResponse || audioData, audioData as the calling closure saw it
continueVideoGeneration(w, audioResponse, audioDataSeen) ==
    startVideo(w, "continue", audioResponse \/ audioDataSeen)

\* one run of the generateVideo effect, up to its first await
PwRunEffect(w) ==
    LET counted == [w EXCEPT !.effectRuns = @ + 1]
    IN  IF w.props = "notAllowed"
        THEN [counted EXCEPT !.isGenerating = FALSE, !.vd = "demo"]
        ELSE IF w.props \in {"noToken", "empty"}
        THEN [counted EXCEPT !.error = TRUE, !.isGenerating = FALSE]
        ELSE LET started == [counted EXCEPT !.isGenerating = TRUE,
                                            !.error = FALSE]
             IN  IF w.voice
                 THEN startAudio(started,
                                 IF w.shouldStopGeneration THEN "effectStop"
                                 ELSE "effect")
                 ELSE continueVideoGeneration(started, FALSE, w.audioData)

\* what the failure of generateAudio sets in generateAudioNarration's catch
audioFailed(w) ==
    [w EXCEPT !.audioError = TRUE,
              !.isGeneratingAudio = FALSE,
              !.shouldStopGeneration = TRUE,
              !.timers = @ + 1]

\* the screens of the render: loading, error, or the preview itself; the
\* AlertDialog belongs to the preview screen
pwScreen(w) ==
    IF w.isGenerating THEN "loading"
    ELSE IF w.error THEN "error"
    ELSE "preview"

dialogVisible == pw.mounted /\ pw.showAudioFailureDialog /\ pwScreen(pw) = "preview"

\* Index renders PreviewVideo: first render, then the effect
pwMount(voice, props) ==
    /\ ~pw.mounted
    /\ pw' = PwRunEffect(PwMounted(voice, props))
    /\ UNCHANGED <<sessionVars, net, up, pf, cb, mp>>

\* the user leaves the preview step (progress bar, Back)
pwUnmount ==
    /\ pw.mounted
    /\ pw' = PwUnmounted
    /\ UNCHANGED <<sessionVars, net, up, pf, cb, mp>>

\* a dependency of the effect changed (for instance imageAnalysis arrived)
pwEffectRerun ==
    /\ pw.mounted
    /\ pw.effectRuns < MaxEffectRuns
    /\ pw' = PwRunEffect(pw)
    /\ UNCHANGED <<sessionVars, net, up, pf, cb, mp>>

\* generateAudio resolved: generateAudioNarration returns the response and
\* its caller goes on
audioResolved(origin) ==
    /\ pw.mounted
    /\ pw.audioCalls[origin] > 0
    /\ LET got == [pw EXCEPT !.audioCalls[origin] = @ - 1,
                             !.audioData = TRUE,
                             !.isGeneratingAudio = FALSE]
       IN  pw' = CASE origin = "effect" ->
                        continueVideoGeneration(got, TRUE, pw.audioData)
                   [] origin = "effectStop" -> got
                   [] origin = "retryAudio" ->
                        continueVideoGeneration(got, TRUE, pw.audioData)
                   [] origin = "retryGeneration" ->
                        startVideo(got, "retry", TRUE)
    /\ UNCHANGED <<sessionVars, net, up, pf, cb, mp>>

\* generateAudio rejected: the catch block of generateAudioNarration, which
\* returns null; only retryGeneration goes on, without narration
audioRejected(origin) ==
    /\ pw.mounted
    /\ pw.audioCalls[origin] > 0
    /\ LET failed == audioFailed([pw EXCEPT !.audioCalls[origin] = @ - 1])
       IN  pw' = IF origin = "retryGeneration"
                 THEN startVideo(failed, "retry", FALSE)
                 ELSE failed
    /\ UNCHANGED <<sessionVars, net, up, pf, cb, mp>>

\* setTimeout(() => setShowAudioFailureDialog(true), 0)
dialogTimer ==
    /\ pw.mounted
    /\ pw.timers > 0
    /\ pw' = [pw EXCEPT !.timers = @ - 1, !.showAudioFailureDialog = TRUE]
    /\ UNCHANGED <<sessionVars, net, up, pf, cb, mp>>

handleRetryAudio ==
    /\ dialogVisible
    /\ pw.retries < MaxRetries
    /\ pw' = startAudio([pw EXCEPT !.showAudioFailureDialog = FALSE,
                                   !.shouldStopGeneration = FALSE,
                                   !.retries = @ + 1],
                        "retryAudio")
    /\ UNCHANGED <<sessionVars, net, up, pf, cb, mp>>

handleContinueWithoutAudio ==
    /\ dialogVisible
    /\ pw' = continueVideoGeneration(
                 [pw EXCEPT !.showAudioFailureDialog = FALSE,
                            !.shouldStopGeneration = FALSE,
                            !.audioData = FALSE],
                 FALSE, pw.audioData)
    /\ UNCHANGED <<sessionVars, net, up, pf, cb, mp>>

\* onOpenChange(false): the dialog is closed without a choice
dialogDismissed ==
    /\ dialogVisible
    /\ pw' = [pw EXCEPT !.showAudioFailureDialog = FALSE]
    /\ UNCHANGED <<sessionVars, net, up, pf, cb, mp>>

\* generatePreview resolved with a response of the given status
videoResolved(kind, narrated, status) ==
    /\ pw.mounted
    /\ pw.videoCalls[<<kind, narrated>>] > 0
    /\ LET got == [pw EXCEPT !.videoCalls[<<kind, narrated>>] = @ - 1,
                             !.vd = status]
       IN  pw' = IF kind = "continue" \/ status \in {"completed", "success"}
                 THEN [got EXCEPT !.isGenerating = FALSE]
                 ELSE IF status = "generating"
                 THEN [got EXCEPT !.polls =
                           Append(@, [hadVd |-> pw.vd # "null",
                                      attempts |-> 0,
                                      phase |-> "inflight"])]
                 ELSE got
    /\ UNCHANGED <<sessionVars, net, up, pf, cb, mp>>

\* generatePreview rejected: the catch blocks
videoRejected(kind, narrated) ==
    /\ pw.mounted
    /\ pw.videoCalls[<<kind, narrated>>] > 0
    /\ pw' = [pw EXCEPT !.videoCalls[<<kind, narrated>>] = @ - 1,
                        !.error = TRUE,
                        !.isGenerating = FALSE]
    /\ UNCHANGED <<sessionVars, net, up, pf, cb, mp>>

\* Try Again on the error screen
pwRetryGeneration ==
    /\ pw.mounted
    /\ pwScreen(pw) = "error"
    /\ pw.retries < MaxRetries
    /\ LET started == [pw EXCEPT !.retries = @ + 1,
                                 !.error = FALSE,
                                 !.isGenerating = TRUE]
       IN  pw' = IF pw.voice
                 THEN startAudio(started, "retryGeneration")
                 ELSE startVideo(started, "retry", FALSE)
    /\ UNCHANGED <<sessionVars, net, up, pf, cb, mp>>

RemoveAt(seq, i) == SubSeq(seq, 1, i - 1) \o SubSeq(seq, i + 1, Len(seq))

\* getGenerationStatus answered (or failed) for the i-th polling loop
pollResolved(i, status) ==
    /\ pw.mounted
    /\ i \in 1..Len(pw.polls)
    /\ pw.polls[i].phase = "inflight"
    /\ pw' = CASE status = "completed" ->
                    [pw EXCEPT !.polls = RemoveAt(@, i),
                               !.isGenerating = FALSE,
                               !.vd = IF pw.polls[i].hadVd
                                      THEN "completed" ELSE @]
               [] status = "failed" ->
                    [pw EXCEPT !.polls = RemoveAt(@, i),
                               !.error = TRUE,
                               !.isGenerating = FALSE]
               [] OTHER ->
                    [pw EXCEPT !.polls[i].attempts = @ + 1,
                               !.polls[i].phase = "waiting"]
    /\ UNCHANGED <<sessionVars, net, up, pf, cb, mp>>

\* setTimeout(poll, 5000) fired
pollTimer(i) ==
    /\ pw.mounted
    /\ i \in 1..Len(pw.polls)
    /\ pw.polls[i].phase = "waiting"
    /\ pw' = IF pw.polls[i].attempts >= MaxAttempts
             THEN [pw EXCEPT !.polls = RemoveAt(@, i),
                             !.error = TRUE,
                             !.isGenerating = FALSE]
             ELSE [pw EXCEPT !.polls[i].phase = "inflight"]
    /\ UNCHANGED <<sessionVars, net, up, pf, cb, mp>>

NextPreview ==
    \/ \E voice \in BOOLEAN, props \in PreviewProps : pwMount(voice, props)
    \/ pwUnmount
    \/ pwEffectRerun
    \/ \E origin \in AudioOrigins : audioResolved(origin)
    \/ \E origin \in AudioOrigins : audioRejected(origin)
    \/ dialogTimer
    \/ handleRetryAudio
    \/ handleContinueWithoutAudio
    \/ dialogDismissed
    \/ \E k \in VideoKinds, status \in VideoStatuses :
          videoResolved(k[1], k[2], status)
    \/ \E k \in VideoKinds : videoRejected(k[1], k[2])
    \/ pwRetryGeneration
    \/ \E i \in 1..MaxRetries, status \in {"completed", "failed", "generating"} :
          pollResolved(i, status)
    \/ \E i \in 1..MaxRetries : pollTimer(i)

SpecPreview == Init /\ [][NextPreview]_vars

\* C19: when the narration call has failed and the dialog has been
\* requested, 'continue without audio' and 'retry' can both be taken, and
\* 'continue without audio' issues the generate-preview request without
\* narration.
C19_AudioFailureNonBlocking ==
    /\ []((pw.mounted /\ pw.showAudioFailureDialog) =>
            /\ ENABLED handleContinueWithoutAudio
            /\ pw.retries < MaxRetries => ENABLED handleRetryAudio)
    /\ [][handleContinueWithoutAudio => pw'.lastRequest = "plain"]_vars

----------------------------------------------------------------------------
(* UploadPhotos (src/src/components/UploadPhotos.tsx): addFiles starts one  *)
(* uploadFiles loop per batch of added files.  up.batches[b] is the loop of *)
(* batch b: its files in submission order, the position i of the file      *)
(* whose uploadImage call is pending (0 once the loop has ended), and the  *)
(* files whose upload the loop has started and settled so far, in the      *)
(* order of these events.  An image is named <<b, j>>: file j of batch b.  *)

MaxBatches == 2    \* addFiles calls followed
MaxFiles == 2      \* files of one batch

\* prev.map(img => img.id === id ? {...img, uploadStatus} : img)
setUploadStatus(images, id, status) ==
    [k \in 1..Len(images) |->
        IF images[k].id = id THEN [images[k] EXCEPT !.status = status]
        ELSE images[k]]

\* every file of the batch is sent at once
addFiles_parallel(n) ==
    LET b == Len(up.batches) + 1
        files == [j \in 1..n |-> <<b, j>>]
        newImages == [j \in 1..n |-> [id |-> files[j], status |-> "uploading"]]
    IN  /\ up.payload = <<>>
        /\ Len(up.batches) < MaxBatches
        /\ up' = [up EXCEPT !.images = @ \o newImages,
                            !.isUploading = TRUE,
                            !.batches = Append(@, [files |-> files, i |-> 1,
                                                   started |-> files,
                                                   finished |-> <<>>])]
        /\ UNCHANGED <<sessionVars, net, pw, pf, cb, mp>>

\* addFiles with n files, then uploadFiles up to the first await: the new
\* images are appended as pending and the first one becomes uploading
addFiles(n) ==
    LET b == Len(up.batches) + 1
        files == [j \in 1..n |-> <<b, j>>]
        newImages == [j \in 1..n |-> [id |-> files[j], status |-> "pending"]]
    IN  /\ up.payload = <<>>
        /\ Len(up.batches) < MaxBatches
        /\ up' = [up EXCEPT !.images =
                                setUploadStatus(@ \o newImages, files[1],
                                                "uploading"),
                            !.isUploading = TRUE,
                            !.batches = Append(@, [files |-> files, i |-> 1,
                                                   started |-> <<files[1]>>,
                                                   finished |-> <<>>])]
        /\ UNCHANGED <<sessionVars, net, pw, pf, cb, mp>>

\* the pending uploadImage call of batch b resolved (ok) or rejected: the
\* image becomes completed or failed, then the loop goes on to the next
\* file or ends with setIsUploading(false)
uploadSettled(b, ok) ==
    /\ b \in 1..Len(up.batches)
    /\ up.batches[b].i > 0
    /\ LET loop == up.batches[b]
           cur == loop.files[loop.i]
           settled == setUploadStatus(up.images, cur,
                                      IF ok THEN "completed" ELSE "failed")
       IN  up' = IF loop.i < Len(loop.files)
                 THEN [up EXCEPT !.images =
                                     setUploadStatus(settled,
                                                     loop.files[loop.i + 1],
                                                     "uploading"),
                                 !.batches[b].i = loop.i + 1,
                                 !.batches[b].started =
                                     Append(@, loop.files[loop.i + 1]),
                                 !.batches[b].finished = Append(@, cur)]
                 ELSE [up EXCEPT !.images = settled,
                                 !.batches[b].i = 0,
                                 !.batches[b].finished = Append(@, cur),
                                 !.isUploading = FALSE]
    /\ UNCHANGED <<sessionVars, net, pw, pf, cb, mp>>

\* images.filter(img => img.uploadStatus === "completed"), as ids; no
\* existing images were handed in
getCompletedUploads ==
    LET RECURSIVE completedOf(_)
        completedOf(images) ==
            IF images = <<>> THEN <<>>
            ELSE IF Head(images).status = "completed"
                 THEN <<Head(images).id>> \o completedOf(Tail(images))
                 ELSE completedOf(Tail(images))
    IN  completedOf(up.images)

\* the Continue button is not disabled (isProcessing is false)
canProceed ==
    /\ Len(up.images) > 0
    /\ \E k \in 1..Len(up.images) : up.images[k].status = "completed"
    /\ ~up.isUploading

\* a click on Continue: onNext(getCompletedUploads()); Index leaves the
\* upload step and the component is unmounted, which ends what is followed
\* of it (up.payload is empty as long as it is mounted)
uploadContinue ==
    /\ canProceed
    /\ up' = [UpInit EXCEPT !.payload = getCompletedUploads]
    /\ UNCHANGED <<sessionVars, net, pw, pf, cb, mp>>

NextUpload ==
    \/ \E n \in 1..MaxFiles : addFiles(n)
    \/ \E b \in 1..MaxBatches, ok \in BOOLEAN : uploadSettled(b, ok)
    \/ uploadContinue

SpecUpload == Init /\ [][NextUpload]_vars

isPrefix(short, long) ==
    /\ Len(short) <= Len(long)
    /\ short = SubSeq(long, 1, Len(short))

uploadingOf(b) ==
    {k \in 1..Len(up.images) :
        up.images[k].id[1] = b /\ up.images[k].status = "uploading"}

\* C20: within one batch at most one image is uploading, uploads are
\* started and settled in submission order, and upload i+1 is started only
\* after upload i has settled.
C20_SequentialUpload ==
    \A b \in 1..Len(up.batches) :
        LET loop == up.batches[b]
        IN  /\ Cardinality(uploadingOf(b)) <= 1
            /\ isPrefix(loop.started, loop.files)
            /\ isPrefix(loop.finished, loop.files)
            /\ Len(loop.finished) <= Len(loop.started)
            /\ Len(loop.started) <= Len(loop.finished) + 1

\* two batches overlap: in the first the first upload has failed and the
\* second is running, while the second batch still uploads its first image
C20_Witness ==
    /\ Len(up.batches) = 2
    /\ up.batches[1].finished = << <<1, 1>> >>
    /\ up.batches[1].started = << <<1, 1>>, <<1, 2>> >>
    /\ up.batches[2].finished = <<>>
    /\ Cardinality(uploadingOf(1)) = 1
    /\ Cardinality(uploadingOf(2)) = 1
    /\ \E k \in 1..Len(up.images) : up.images[k].status = "failed"

----------------------------------------------------------------------------
(* PreviewVideo (src/src/components/PreviewVideo.tsx): the generateVideo   *)
(* effect with its demo-mode fallback, the retry from the error screen, the *)
(* status polling, loadVideoUrl and the Approve button.  A pending call is  *)
(* counted in pf together with what its closure saw of videoData; its       *)
(* completion is an action.  Completions that arrive after the component    *)
(* was unmounted are dropped.                                               *)

MaxGenerations == 2   \* generate-preview requests of one mount

\* what a closure holds of the videoData state: null, or a response with
\* or without video_preview_path
SeenVideoData == {"null", "path", "nopath"}

\* which code awaits a generatePreview call, and the videoData its render saw
PfCallers == {"effect", "retry"} \X SeenVideoData

\* what the effect looks at first: all fine, no access token, no chapters
\* or no images
PfProps == {"ok", "noToken", "empty"}

\* how generatePreview fails: the 401 branch ('Authentication required.
\* Please log in.'), a message that holds 404 or 405 ('HTTP 404: Not
\* Found'), any other message
PfFailures == {"auth", "unavailable", "other"}

\* a polling loop: what its closure saw of videoData, its attempts counter,
\* and whether a status request is in flight or its timer is running
PollLoops == SeenVideoData \X (0..MaxAttempts) \X {"inflight", "waiting"}

\* no polling loop is running (pf.polls counts the loops of each kind)
NoPolls == [l \in PollLoops |-> 0]

\* the useState initial values of PreviewVideo
PfMounted(props) ==
    [mounted |-> TRUE, props |-> props,
     isGenerating |-> TRUE, vd |-> "null", path |-> FALSE, error |-> FALSE,
     calls |-> [c \in PfCallers |-> 0], polls |-> NoPolls, loads |-> 0,
     requests |-> 0, reported |-> FALSE]

pfSeen(w) ==
    IF w.vd = "null" THEN "null" ELSE IF w.path THEN "path" ELSE "nopath"

\* one run of the generateVideo effect, up to its await
PfRunEffect(w) ==
    IF w.props \in {"noToken", "empty"}
    THEN [w EXCEPT !.error = TRUE, !.isGenerating = FALSE]
    ELSE [w EXCEPT !.isGenerating = TRUE, !.error = FALSE,
                   !.calls[<<"effect", pfSeen(w)>>] = @ + 1,
                   !.requests = @ + 1]

\* loading screen, error screen, or the preview with its buttons
pfScreen(w) ==
    IF w.isGenerating THEN "loading"
    ELSE IF w.error THEN "error"
    ELSE "preview"

\* the Approve button is rendered and not disabled
pfApproveEnabled ==
    /\ pf.mounted
    /\ pfScreen(pf) = "preview"
    /\ pf.vd \in {"completed", "demo"}

\* Index renders PreviewVideo: first render, then the effect
pfMount(props) ==
    /\ ~pf.mounted
    /\ pf' = PfRunEffect(PfMounted(props))
    /\ UNCHANGED <<sessionVars, net, pw, up, cb, mp>>

\* the user leaves the preview step (Make Changes, Go Back, progress bar)
pfUnmount ==
    /\ pf.mounted
    /\ pf' = PfUnmounted
    /\ UNCHANGED <<sessionVars, net, pw, up, cb, mp>>

\* a dependency of the effect changed (for instance imageAnalysis arrived)
pfEffectRerun ==
    /\ pf.mounted
    /\ pf.requests < MaxGenerations
    /\ pf' = PfRunEffect(pf)
    /\ UNCHANGED <<sessionVars, net, pw, up, cb, mp>>

\* a polling loop starts with its first request
pfStartPoll(w, seen) ==
    [w EXCEPT !.polls[<<seen, 0, "inflight">>] = @ + 1]

\* generatePreview resolved with a response of the given status, with or
\* without video_preview_path
pfVideoResolved(kind, seen, status, path) ==
    /\ pf.mounted
    /\ pf.calls[<<kind, seen>>] > 0
    /\ LET got == [pf EXCEPT !.calls[<<kind, seen>>] = @ - 1,
                             !.vd = status,
                             !.path = path,
                             !.reported = @ \/ status \in {"success", "completed"}]
           shown == [got EXCEPT !.isGenerating = FALSE]
           loading == [shown EXCEPT !.loads = @ + 1]
       IN  pf' = IF kind = "effect"
                 THEN CASE path /\ status = "success" -> loading
                        [] status = "generating" -> pfStartPoll(got, seen)
                        [] status = "completed" -> shown
                        [] status = "failed" -> [shown EXCEPT !.error = TRUE]
                        [] OTHER -> got
                 ELSE CASE status = "generating" -> pfStartPoll(got, seen)
                        [] status \in {"completed", "success"} ->
                             IF path THEN loading ELSE shown
                        [] OTHER -> got
    /\ UNCHANGED <<sessionVars, net, pw, up, cb, mp>>

\* generatePreview rejected: the catch block of the effect falls back to
\* the demo preview, the one of retryGeneration shows the error
pfVideoRejected(kind, seen, failure) ==
    /\ pf.mounted
    /\ pf.calls[<<kind, seen>>] > 0
    /\ LET got == [pf EXCEPT !.calls[<<kind, seen>>] = @ - 1,
                             !.isGenerating = FALSE]
       IN  pf' = IF kind = "effect" /\ failure = "unavailable"
                 THEN [got EXCEPT !.error = FALSE, !.vd = "demo",
                                  !.path = FALSE]
                 ELSE [got EXCEPT !.error = TRUE]
    /\ UNCHANGED <<sessionVars, net, pw, up, cb, mp>>

\* Try Again on the error screen
pfRetryGeneration ==
    /\ pf.mounted
    /\ pfScreen(pf) = "error"
    /\ pf.requests < MaxGenerations
    /\ pf' = [pf EXCEPT !.requests = @ + 1,
                        !.error = FALSE,
                        !.isGenerating = TRUE,
                        !.calls[<<"retry", pfSeen(pf)>>] = @ + 1]
    /\ UNCHANGED <<sessionVars, net, pw, up, cb, mp>>

\* the polls stop one attempt late
pfPollTimer_late(l) ==
    /\ pf.mounted
    /\ l[3] = "waiting"
    /\ pf.polls[l] > 0
    /\ pf' = IF l[2] > MaxAttempts
             THEN [pf EXCEPT !.polls[l] = @ - 1,
                             !.error = TRUE,
                             !.isGenerating = FALSE]
             ELSE [pf EXCEPT !.polls[l] = @ - 1,
                             !.polls[<<l[1], l[2], "inflight">>] = @ + 1]
    /\ UNCHANGED <<sessionVars, net, pw, up, cb, mp>>

\* getGenerationStatus answered for a polling loop l, or threw
pfPollResolved(l, status) ==
    /\ pf.mounted
    /\ l[3] = "inflight"
    /\ pf.polls[l] > 0
    /\ LET seen == l[1]
           ended == [pf EXCEPT !.polls[l] = @ - 1,
                               !.isGenerating = FALSE]
       IN  pf' = CASE status = "completed" ->
                        IF seen = "null"
                        THEN [ended EXCEPT !.reported = TRUE]
                        ELSE [ended EXCEPT !.reported = TRUE,
                                           !.vd = "completed",
                                           !.path = (seen = "path"),
                                           !.loads = IF seen = "path"
                                                     THEN @ + 1 ELSE @]
                   [] status \in {"failed", "threw"} ->
                        [ended EXCEPT !.error = TRUE]
                   [] OTHER ->
                        [pf EXCEPT !.polls[l] = @ - 1,
                                   !.polls[<<l[1], l[2] + 1, "waiting">>] = @ + 1]
    /\ UNCHANGED <<sessionVars, net, pw, up, cb, mp>>

\* setTimeout(poll, 5000) fired: the timeout error, or the next request
pfPollTimer(l) ==
    /\ pf.mounted
    /\ l[3] = "waiting"
    /\ pf.polls[l] > 0
    /\ pf' = IF l[2] >= MaxAttempts
             THEN [pf EXCEPT !.polls[l] = @ - 1,
                             !.error = TRUE,
                             !.isGenerating = FALSE]
             ELSE [pf EXCEPT !.polls[l] = @ - 1,
                             !.polls[<<l[1], l[2], "inflight">>] = @ + 1]
    /\ UNCHANGED <<sessionVars, net, pw, up, cb, mp>>

\* loadVideoUrl: createAuthenticatedVideoBlob resolved, or it threw
pfLoadSettled(ok) ==
    /\ pf.mounted
    /\ pf.loads > 0
    /\ pf' = [pf EXCEPT !.loads = @ - 1, !.error = IF ok THEN @ ELSE TRUE]
    /\ UNCHANGED <<sessionVars, net, pw, up, cb, mp>>

\* a click on Approve: onApprove, after which Index shows the final step
pfApprove ==
    /\ pfApproveEnabled
    /\ pf' = PfUnmounted
    /\ UNCHANGED <<sessionVars, net, pw, up, cb, mp>>

PollStatuses == {"completed", "failed", "generating", "threw"}

NextPreviewFile ==
    \/ \E props \in PfProps : pfMount(props)
    \/ pfUnmount
    \/ pfEffectRerun
    \/ \E c \in PfCallers, status \in VideoStatuses, path \in BOOLEAN :
          pfVideoResolved(c[1], c[2], status, path)
    \/ \E c \in PfCallers, failure \in PfFailures :
          pfVideoRejected(c[1], c[2], failure)
    \/ pfRetryGeneration
    \/ \E l \in PollLoops, status \in PollStatuses : pfPollResolved(l, status)
    \/ \E l \in PollLoops : pfPollTimer(l)
    \/ \E ok \in BOOLEAN : pfLoadSettled(ok)
    \/ pfApprove

SpecPreviewFile == Init /\ [][NextPreviewFile]_vars

\* C21: Approve is taken only after the backend has reported a successfully
\* generated preview (a generate-preview response with status 'success' or
\* 'completed', or a status poll answering 'completed').
C21_ApproveNeedsSuccess == [][pfApprove => pf.reported]_vars

----------------------------------------------------------------------------
(* Further properties of the wizard session controller *)

\* the steps before step in the ordering
precedingSteps(step) == {stepOrder[i] : i \in 1..orderIndex[step]}

\* C22: whenever the current step is a creation step, every step before it
\* in the ordering is completed, and so canProceedFromStep holds for the
\* current step.
C22_CurrentStepUnlocked ==
    currentStep \in creationSteps =>
        /\ precedingSteps(currentStep) \subseteq completedSteps
        /\ canProceedFromStep(completedSteps, currentStep)

\* C25: while the preview step is shown, a generate-preview request is
\* issued only on entering the step or by retry, never by a background
\* completion alone, and at most one request is in flight.
C25_RequestOnEntryOrRetry ==
    /\ [](pv.reqs <= 1)
    /\ [][(currentStep' = "preview" /\ pv'.reqs > pv.reqs) =>
              (currentStep # "preview" \/ retryGeneration)]_vars

\* C26: isProcessingStory is true exactly while a script-parse request is
\* in flight, and isProcessingImageAnalysis is true exactly while an
\* image-analysis request is in flight.
C26_FlagsTrackTasks ==
    /\ isProcessingStory <=> (Pending(parseTasks) > 0)
    /\ isProcessingImageAnalysis <=> (Pending(analysisTasks) > 0)

----------------------------------------------------------------------------
(* Further properties of UploadPhotos *)

\* some image is still to be uploaded or being uploaded
uploadInFlight ==
    \E k \in 1..Len(up.images) : up.images[k].status \in {"pending", "uploading"}

\* C23: isUploading is true whenever some image is pending or uploading,
\* Continue is not taken while an upload is in flight, and the payload of
\* Continue holds only images whose upload completed.
C23_ContinueAfterUploads ==
    /\ [](uploadInFlight => up.isUploading)
    /\ [][uploadContinue =>
            /\ ~uploadInFlight
            /\ \A j \in 1..Len(up'.payload) :
                  \E k \in 1..Len(up.images) :
                      /\ up.images[k].id = up'.payload[j]
                      /\ up.images[k].status = "completed"]_vars

----------------------------------------------------------------------------
(* Further properties of PreviewVideo.tsx *)

\* a pending generatePreview call settles
pfVideoSettles ==
    \/ \E c \in PfCallers, status \in VideoStatuses, path \in BOOLEAN :
          pfVideoResolved(c[1], c[2], status, path)
    \/ \E c \in PfCallers, failure \in PfFailures :
          pfVideoRejected(c[1], c[2], failure)

\* a polling loop takes its next step: an answer arrives or its timer fires
pfPollSteps ==
    \/ \E l \in PollLoops, status \in PollStatuses : pfPollResolved(l, status)
    \/ \E l \in PollLoops : pfPollTimer(l)

\* every pending network call is answered in the end and every timer fires;
\* nothing is assumed of the user
SpecPreviewFileFair ==
    /\ SpecPreviewFile
    /\ WF_vars(pfVideoSettles)
    /\ WF_vars(pfPollSteps)
    /\ WF_vars(\E ok \in BOOLEAN : pfLoadSettled(ok))

\* C24: once the backend has reported a successful generation (status
\* 'success' or 'completed' of the generate-preview response, or a status
\* poll answering 'completed'), Approve becomes enabled, unless the user
\* leaves the step or a later failure or a new generation takes the
\* preview screen away first.
C24_ApproveAfterSuccess ==
    (pf.mounted /\ pf.reported)
        ~> (pfApproveEnabled \/ ~pf.mounted \/ pfScreen(pf) # "preview")

\* the status requests a polling loop has issued so far
pollRequests(l) == l[2] + (IF l[3] = "inflight" THEN 1 ELSE 0)

\* a step ends a polling loop: a loop is gone and none has moved or begun
pollEnded ==
    /\ pf.mounted /\ pf'.mounted
    /\ pf'.polls # pf.polls
    /\ \A l \in PollLoops : pf'.polls[l] <= pf.polls[l]

\* C28: every polling loop ends (on 'completed', on 'failed', on a request
\* that throws, or with the timeout error after maxAttempts polls), the
\* step that ends it leaves isGenerating false, and a loop issues no more
\* than maxAttempts status requests.
C28_PollingTerminates ==
    /\ (pf.mounted /\ pf.polls # NoPolls) ~> (~pf.mounted \/ pf.polls = NoPolls)
    /\ [][pollEnded => ~pf'.isGenerating]_vars
    /\ [](pf.mounted =>
            \A l \in PollLoops : pf.polls[l] > 0 => pollRequests(l) <= MaxAttempts)

\* a loop has made all its polls without a final answer: its timer is
\* about to raise the timeout error
C28_Witness ==
    /\ pf.mounted
    /\ \E l \in PollLoops :
          /\ pf.polls[l] > 0
          /\ l[3] = "waiting"
          /\ l[2] = MaxAttempts

----------------------------------------------------------------------------
(* mapChaptersToImages (src/src/components/PreviewVideo.tsx): the request  *)
(* body built from the chapters and the uploaded images.  An image is its   *)
(* position in uploadedImages, a chapter is the length of its script.       *)

MaxImages == 4      \* uploaded images
MaxChapters == 3    \* chapters of the parsed story

\* chapter.script.length: around the 150 characters that 10 seconds hold,
\* and longer
ScriptLengths == {0, 150, 151, 450}

SeqsUpTo(S, n) == UNION {[1..k -> S] : k \in 0..n}

\* the inputs of the function
MappingInputs ==
    {[called |-> FALSE, images |-> [k \in 1..n |-> k], chapters |-> chapters,
      mappings |-> <<>>] :
        n \in 0..MaxImages, chapters \in SeqsUpTo(ScriptLengths, MaxChapters)}

\* Math.ceil(a / b) for a >= 0, b > 0
Ceil(a, b) == (a + b - 1) \div b

Maximum(a, b) == IF a >= b THEN a ELSE b

Minimum(a, b) == IF a <= b THEN a ELSE b

\* Array.prototype.slice(start, end) for 0 <= start, 0 <= end <= length
slice(seq, start, end) ==
    IF start >= end THEN <<>> ELSE SubSeq(seq, start + 1, end)

\* the images are dealt out rounding down
imagesPerChapter_floor(nImages, nChapters) ==
    nImages \div Maximum(nChapters, 1)

imagesPerChapter(nImages, nChapters) ==
    Ceil(nImages, Maximum(nChapters, 1))

mapChaptersToImages(uploadedImages, chapters) ==
    [index \in 1..Len(chapters) |->
        LET perChapter == imagesPerChapter(Len(uploadedImages), Len(chapters))
            startIdx == (index - 1) * perChapter
            endIdx == Minimum(startIdx + perChapter, Len(uploadedImages))
            chapterImages == slice(uploadedImages, startIdx, endIdx)
            baseDurationPerImage ==
                Maximum(10000, Ceil(chapters[index], 15) * 1000)
            durationPerImage ==
                IF Len(chapterImages) > 0
                THEN baseDurationPerImage \div Len(chapterImages)
                ELSE 10000
        IN  [chapter_index |-> index,
             images |-> [k \in 1..Len(chapterImages) |->
                            [img_id |-> chapterImages[k],
                             duration |-> durationPerImage]],
             script |-> chapters[index]]]

\* the effect (or retryGeneration) builds its request
mapCall ==
    /\ ~mp.called
    /\ mp' = [mp EXCEPT !.called = TRUE,
                        !.mappings = mapChaptersToImages(mp.images, mp.chapters)]
    /\ UNCHANGED <<sessionVars, net, pw, up, pf, cb>>

InitMapping ==
    /\ InitSession
    /\ net = NetInit
    /\ pw = PwUnmounted
    /\ up = UpInit
    /\ pf = PfUnmounted
    /\ cb = CbIdle
    /\ mp \in MappingInputs

NextMapping == mapCall

SpecMapping == InitMapping /\ [][NextMapping]_vars

\* C27: every image of the mapping gets a duration of at least 10000 ms.
C27_MinimumDuration ==
    mp.called =>
        \A i \in 1..Len(mp.mappings) :
            \A k \in 1..Len(mp.mappings[i].images) :
                mp.mappings[i].images[k].duration >= 10000

\* the img_id lists of the mappings, one after the other
imageIdsFrom(mappings, i) ==
    LET RECURSIVE idsFrom(_)
        idsFrom(j) ==
            IF j > Len(mappings) THEN <<>>
            ELSE [k \in 1..Len(mappings[j].images) |->
                      mappings[j].images[k].img_id] \o idsFrom(j + 1)
    IN  idsFrom(i)

\* C30: with at least one chapter, the image lists of the chapters, taken
\* in chapter order, are consecutive slices of the uploaded images whose
\* concatenation is the whole list, so every image belongs to exactly one
\* chapter.
C30_ImagesPartitioned ==
    (mp.called /\ Len(mp.chapters) >= 1) =>
        /\ imageIdsFrom(mp.mappings, 1) = mp.images
        /\ \A i \in 1..Len(mp.mappings) :
              LET before == Len(imageIdsFrom(mp.mappings, 1))
                            - Len(imageIdsFrom(mp.mappings, i))
                  own == mp.mappings[i].images
              IN  \A k \in 1..Len(own) : own[k].img_id = mp.images[before + k]

\* three chapters share four images: two, two and none
C30_Witness ==
    /\ mp.called
    /\ Len(mp.chapters) = 3
    /\ Len(mp.images) = 4
    /\ Len(mp.mappings[1].images) = 2
    /\ Len(mp.mappings[2].images) = 2
    /\ Len(mp.mappings[3].images) = 0

----------------------------------------------------------------------------
(* AuthCallback (src/src/components/AuthCallback.tsx, latest revision): the *)
(* page /auth/callback is loaded with the search parameters of the OAuth    *)
(* redirect.  Its effect runs handleAuthCallback once; the effect of        *)
(* AuthProvider, mounted around it, runs refreshUser at the same time.      *)
(* net.token is the access_token entry of localStorage; cb.mine tells that  *)
(* the entry is the token of this callback, cb.setItem that the callback    *)
(* has written one, cb.before what the entry was when the page was loaded,  *)
(* cb.isLoading is authState.isLoading, cb.loginError the error of the      *)
(* login URL the callback navigated to, and cb.navigated tells where the    *)
(* callback navigated ("none" before it did).  After the callback the user  *)
(* goes on in the application: Back to Home on the login page, and the      *)
(* auth check of the upload step.                                           *)

\* the page is loaded: localStorage may hold a token of an earlier login,
\* nobody is authenticated yet
CallbackLoads ==
    {[NetInit EXCEPT !.token = had, !.isAuthenticated = FALSE,
                     !.route = "callback"] : had \in BOOLEAN}

\* handleAuthCallback up to its first await; storeFails: localStorage.setItem
\* throws, which the catch block answers
handleAuthCallback(error, token, storeFails) ==
    /\ cb.phase = "idle"
    /\ LET started == [phase |-> "done", error |-> error, token |-> token,
                       before |-> net.token, setItem |-> FALSE, mine |-> FALSE,
                       lookedUp |-> FALSE, refreshed |-> FALSE,
                       provider |-> "pending", isLoading |-> TRUE,
                       loginError |-> "none", navigated |-> "login"]
       IN  IF error
           THEN /\ cb' = [started EXCEPT !.loginError = "error"]
                /\ net' = [net EXCEPT !.route = "login"]
           ELSE IF ~token
           THEN /\ cb' = [started EXCEPT !.loginError = "no_token"]
                /\ net' = [net EXCEPT !.route = "login"]
           ELSE IF storeFails
           THEN /\ cb' = [started EXCEPT !.loginError = "callback_error"]
                /\ net' = [net EXCEPT !.token = FALSE, !.route = "login"]
           ELSE /\ cb' = [started EXCEPT !.phase = "lookup", !.setItem = TRUE,
                                         !.mine = TRUE, !.navigated = "none"]
                /\ net' = [net EXCEPT !.token = TRUE]
    /\ UNCHANGED <<sessionVars, pw, up, pf, mp>>

\* a failed lookup leaves the stored token alone
lookupSettled_keep(status) ==
    /\ cb.phase = "lookup"
    /\ IF status = 200
       THEN /\ cb' = [cb EXCEPT !.phase = "refresh", !.lookedUp = TRUE,
                                !.isLoading = TRUE]
            /\ UNCHANGED net
       ELSE /\ cb' = [cb EXCEPT !.phase = "done", !.navigated = "login",
                                !.loginError = "user_info_failed",
                                !.mine = IF status = 401 THEN FALSE ELSE @]
            /\ net' = [net EXCEPT !.token = IF status = 401 THEN FALSE ELSE @,
                                  !.route = "login"]
    /\ UNCHANGED <<sessionVars, pw, up, pf, mp>>

\* authService.getCurrentUser of handleAuthCallback settled: a user (200),
\* or null (a 401 removes the token, any other failure is caught); with a
\* user refreshUser is called, with null the token is removed and the
\* login page follows
lookupSettled(status) ==
    /\ cb.phase = "lookup"
    /\ IF status = 200
       THEN /\ cb' = [cb EXCEPT !.phase = "refresh", !.lookedUp = TRUE,
                                !.isLoading = TRUE]
            /\ UNCHANGED net
       ELSE /\ cb' = [cb EXCEPT !.phase = "done", !.mine = FALSE,
                                !.navigated = "login",
                                !.loginError = "user_info_failed"]
            /\ net' = [net EXCEPT !.token = FALSE, !.route = "login"]
    /\ UNCHANGED <<sessionVars, pw, up, pf, mp>>

\* what getCurrentUser inside refreshUser does to localStorage and to the
\* authentication state
userRefreshed(status) ==
    [net EXCEPT !.token = IF status = 401 THEN FALSE ELSE @,
                !.isAuthenticated = (status = 200)]

\* the refreshUser call awaited by handleAuthCallback settled; then
\* navigate('/')
callbackRefreshSettled(status) ==
    /\ cb.phase = "refresh"
    /\ cb' = [cb EXCEPT !.phase = "done", !.refreshed = TRUE,
                        !.isLoading = FALSE, !.navigated = "home",
                        !.mine = IF status = 401 THEN FALSE ELSE @]
    /\ net' = [userRefreshed(status) EXCEPT !.route = "app"]
    /\ UNCHANGED <<sessionVars, pw, up, pf, mp>>

\* the refreshUser call of AuthProvider's own effect settled
providerRefreshSettled(status) ==
    /\ cb.phase # "idle"
    /\ cb.provider = "pending"
    /\ cb' = [cb EXCEPT !.provider = "settled", !.isLoading = FALSE,
                        !.mine = IF status = 401 THEN FALSE ELSE @]
    /\ net' = userRefreshed(status)
    /\ UNCHANGED <<sessionVars, pw, up, pf, mp>>

InitCallback ==
    /\ InitSession
    /\ net \in CallbackLoads
    /\ pw = PwUnmounted
    /\ up = UpInit
    /\ pf = PfUnmounted
    /\ cb = CbIdle
    /\ mp = MpIdle

NextCallback ==
    \/ \E error \in BOOLEAN, token \in BOOLEAN, storeFails \in BOOLEAN :
          handleAuthCallback(error, token, storeFails)
    \/ \E status \in Statuses : lookupSettled(status)
    \/ \E status \in Statuses : callbackRefreshSettled(status)
    \/ \E status \in Statuses : providerRefreshSettled(status)
    \/ loginBackHome
    \/ checkAuth

SpecCallback == InitCallback /\ [][NextCallback]_vars

\* C29: once handleAuthCallback has finished, the token of the callback is
\* in localStorage only if the user lookup succeeded; with an error
\* parameter or without a token parameter the callback has written nothing;
\* on the login page the token entry is gone when the callback had written
\* it; and the callback navigates to '/' only after a successful lookup and
\* the refreshUser call that follows it.
C29_TokenOnlyAfterLookup ==
    (cb.phase = "done") =>
        /\ cb.mine => cb.lookedUp
        /\ (cb.error \/ ~cb.token) => ~cb.setItem
        /\ (cb.navigated = "login" /\ cb.setItem) => ~net.token
        /\ cb.navigated = "home" => (cb.lookedUp /\ cb.refreshed)

\* the lookup failed without a 401: the token written by the callback has
\* been removed and the login page is shown
C29_Witness ==
    /\ cb.phase = "done"
    /\ cb.setItem
    /\ cb.loginError = "user_info_failed"
    /\ cb.navigated = "login"
    /\ net.route = "login"
    /\ ~net.token

====
